---- MODULE Spec2Model ----
(***************************************************************************)
(* Visual Review (src/app.py): a FastAPI gateway that proxies a pull       *)
(* request's changed PNG images and review comments from the GitHub API.   *)
(*                                                                         *)
(* Every request handler is a coroutine; it is modelled as a task whose    *)
(* steps are the runs of code between two suspension points (the awaited   *)
(* upstream calls).  The upstream API is a black box: each call either     *)
(* raises a transport fault or returns a status code and a body.           *)
(***************************************************************************)
EXTENDS Integers, Sequences, FiniteSets, TLC

VARIABLES
    GITHUB_TOKEN,   \* app.py:32, the credential ("" when not configured)
    _cache,         \* app.py:35, key -> [ts, val]
    now,            \* time.time()
    upstream,       \* the pull requests as the GitHub API holds them
    pushes,         \* number of force-pushes so far
    ticks,          \* number of clock advances so far
    task,           \* the request handlers in flight
    probe           \* the last direct call of the cache and what it gave

vars == <<GITHUB_TOKEN, _cache, now, upstream, pushes, ticks, task, probe>>

----------------------------------------------------------------------------
(* Bounds of the model *)

MaxPushes == 2      \* force-pushes per behaviour
MaxTicks == 2       \* clock advances per behaviour
MaxFiles == 2       \* files of a compare response, where all lists are drawn

(* Program constants *)

TTL == 120          \* app.py:113, _cache_get(cache_key, 120)

Tasks == {"t1", "t2"}
MainTask == "t1"

None == "None"      \* Python's None, where the other values are strings
Truthy(v) == v \notin {None, ""}

Shas == {"aaa", "bbb", "ccc"}
Numbers == {1}

StatusCodes == {200, 403, 404}

----------------------------------------------------------------------------
(* Exceptions and responses *)

\* str(e) of an exception: a message and, where it names one, a number
Msg(m, c) == [msg |-> m, code |-> c]
Text(m) == Msg(m, 0)

TransportFaults == {Text("ReadTimeout"), Text("ConnectError")}
JSONDecodeError == Text("Expecting value")
AttributeError == Text("object has no attribute")
KeyError(k) == Text(k)
BinasciiError == Text("Incorrect padding")

\* What an awaited upstream call yields: a raised exception or a response
Fault(e) == [fault |-> TRUE, exc |-> e]
Http(s, b) == [fault |-> FALSE, status_code |-> s, body |-> b]

\* A response body as resp.json() sees it
NotJson == [json |-> FALSE]
JsonDict(d) == [json |-> TRUE, k |-> "dict", v |-> d]
JsonList(l) == [json |-> TRUE, k |-> "list", v |-> [items |-> l]]
NoBody == NotJson

\* The empty dict
EmptyDict == [key \in {} |-> None]

\* dict.get(key, default)
Get(d, key, default) == IF key \in DOMAIN d THEN d[key] ELSE default

\* What a handler hands back to the framework
NoResp == [kind |-> "none"]
RawResponse(status, media, body) ==
    [kind |-> "raw", status_code |-> status, media_type |-> media, body |-> body]
JsonResponse(content) == [kind |-> "json", status_code |-> 200, content |-> content]
Unhandled(e) == [kind |-> "unhandled", exc |-> e]

BytesBody(b) == [t |-> "bytes", v |-> b]
TextBody(m) == [t |-> "text", v |-> m]

\* How a run of handler code ends: a return, a raise, or the next await.
\* raised keeps the exception the run raised, also once a handler caught it.
Ret(resp) == [k |-> "return", resp |-> resp, raised |-> <<>>]
Raise(e) == [k |-> "raise", raised |-> <<e>>]
Await(call, loc) == [k |-> "await", call |-> call, local |-> loc, raised |-> <<>>]
Caught(e, resp) == [k |-> "return", resp |-> resp, raised |-> <<e>>]

----------------------------------------------------------------------------
(* base64.b64decode (binascii.a2b_base64, non-strict) as used at           *)
(* app.py:200 and app.py:217                                               *)

B64Alphabet ==
    << "A","B","C","D","E","F","G","H","I","J","K","L","M","N","O","P",
       "Q","R","S","T","U","V","W","X","Y","Z","a","b","c","d","e","f",
       "g","h","i","j","k","l","m","n","o","p","q","r","s","t","u","v",
       "w","x","y","z","0","1","2","3","4","5","6","7","8","9","+","/" >>

B64Value(c) ==
    IF \E i \in 1..64 : B64Alphabet[i] = c
    THEN (CHOOSE i \in 1..64 : B64Alphabet[i] = c) - 1
    ELSE 64

\* One pass over the characters from position i: quad is the position in
\* the current group of four, left the bits carried over, pads the count
\* of consecutive "=" seen, out the bytes so far.
RECURSIVE B64Scan(_, _, _, _, _, _)
B64Scan(s, i, quad, left, pads, out) ==
    IF i > Len(s)
    THEN IF quad # 0 THEN [ok |-> FALSE, exc |-> BinasciiError]
                     ELSE [ok |-> TRUE, bytes |-> out]
    ELSE IF s[i] = "="
    THEN IF quad >= 2 /\ quad + pads + 1 >= 4
         THEN [ok |-> TRUE, bytes |-> out]
         ELSE B64Scan(s, i + 1, quad, left,
                      IF quad >= 2 THEN pads + 1 ELSE pads, out)
    ELSE LET v == B64Value(s[i]) IN
         IF v >= 64 THEN B64Scan(s, i + 1, quad, left, pads, out)
         ELSE CASE quad = 0 -> B64Scan(s, i + 1, 1, v, 0, out)
                [] quad = 1 -> B64Scan(s, i + 1, 2, v % 16, 0,
                                       Append(out, left * 4 + v \div 16))
                [] quad = 2 -> B64Scan(s, i + 1, 3, v % 4, 0,
                                       Append(out, left * 16 + v \div 4))
                [] quad = 3 -> B64Scan(s, i + 1, 0, 0, 0,
                                       Append(out, left * 64 + v))

b64decode(s) == B64Scan(s, 1, 0, 0, 0, <<>>)

\* Encoded contents the upstream API may carry: "QQ==" (one byte),
\* "QU\nJD" (three bytes, with the line break GitHub inserts), "Q"
\* and "QQ" (truncated), "" (empty file)
B64Samples ==
    { <<"Q","Q","=","=">>, <<"Q","U","\n","J","D">>, <<"Q">>, <<"Q","Q">>, <<>> }

\* Raw bytes a download may return
RawSamples == { <<>>, <<137, 80>> }

----------------------------------------------------------------------------
(* The in-memory cache, app.py:35-47 *)

\* _cache_get returns the value or None: <<val>> stands for the value,
\* Absent for None
Absent == <<>>

_cache_get_inclusive(c, key, ttl, time) ==
    IF key \in DOMAIN c /\ time - c[key].ts <= ttl THEN <<c[key].val>> ELSE Absent

_cache_get(c, key, ttl, time) ==
    IF key \in DOMAIN c /\ time - c[key].ts < ttl THEN <<c[key].val>> ELSE Absent

\* app.py:38-43: the mapping as a call of _cache_get leaves it; the
\* function reads _cache and assigns nothing
_cache_after_get_sliding(c, key, ttl, time) ==
    IF key \in DOMAIN c /\ time - c[key].ts < ttl
    THEN [c EXCEPT ![key].ts = time] ELSE c

_cache_after_get_evicting(c, key, ttl, time) ==
    IF key \in DOMAIN c /\ ~(time - c[key].ts < ttl)
    THEN [k \in DOMAIN c \ {key} |-> c[k]] ELSE c

_cache_after_get(c, key, ttl, time) == c

_cache_set(c, key, val, time) ==
    [k \in DOMAIN c \cup {key} |->
        IF k = key THEN [ts |-> time, val |-> val] ELSE c[k]]

----------------------------------------------------------------------------
(* pr_image, app.py:164-247: the image retrieval pipeline *)

img_media == "image/png"

PngResponse(content) == RawResponse(200, img_media, BytesBody(content))

\* app.py:172-174
pr_image_no_token == RawResponse(500, None, TextBody(Text("No GitHub token")))

\* app.py:191-194
pr_image_upstream_error_fixed(status) ==
    RawResponse(404, None, TextBody(Msg("GitHub API error: HTTP", status)))

pr_image_upstream_error(status) ==
    RawResponse(status, None, TextBody(Msg("GitHub API error: HTTP", status)))

\* app.py:239-243
pr_image_not_retrievable_as_500 ==
    Raise(Text("Could not retrieve image"))

pr_image_not_retrievable ==
    Ret(RawResponse(404, None, TextBody(Text("Could not retrieve image"))))

\* app.py:200-205 and 217-222: decode the content of d and return it
pr_image_decoded(d) ==
    IF "content" \notin DOMAIN d THEN Raise(KeyError("content"))
    ELSE LET dec == b64decode(d["content"]) IN
         IF dec.ok THEN Ret(PngResponse(dec.bytes)) ELSE Raise(dec.exc)

\* app.py:224-243, case 3: the download_url of the content response
pr_image_tier3(data) ==
    IF Truthy(Get(data, "download_url", None))
    THEN Await("download", [data |-> data])
    ELSE pr_image_not_retrievable

\* app.py:223-224: the blob tier produced no bytes
pr_image_blob_miss_gives_up(data) == pr_image_not_retrievable

pr_image_blob_miss(data) == pr_image_tier3(data)

\* app.py:207-213, case 2: the blob of the content response
pr_image_tier2(data) ==
    IF Truthy(Get(data, "sha", None))
    THEN Await("blob", [data |-> data])
    ELSE pr_image_tier3(data)

\* app.py:198-205, case 1: inline content
pr_image_tier1_blob_first(data) ==
    IF Truthy(Get(data, "sha", None)) THEN Await("blob", [data |-> data])
    ELSE IF Get(data, "encoding", None) = "base64" THEN pr_image_decoded(data)
    ELSE pr_image_tier3(data)

pr_image_tier1(data) ==
    IF Get(data, "encoding", None) = "base64"
    THEN pr_image_decoded(data)
    ELSE pr_image_tier2(data)

\* app.py:181-205: the run from the content response to the next await
pr_image_after_content(r) ==
    IF r.fault THEN Raise(r.exc)
    ELSE IF r.status_code # 200 THEN Ret(pr_image_upstream_error(r.status_code))
    ELSE IF ~r.body.json THEN Raise(JSONDecodeError)
    ELSE IF r.body.k # "dict" THEN Raise(AttributeError)
    ELSE pr_image_tier1(r.body.v)

\* app.py:210-224: the run from the blob response to the next await
pr_image_after_blob(r, data) ==
    IF r.fault THEN Raise(r.exc)
    ELSE IF r.status_code = 200
    THEN IF ~r.body.json THEN Raise(JSONDecodeError)
         ELSE IF r.body.k # "dict" THEN Raise(AttributeError)
         ELSE IF Get(r.body.v, "encoding", None) = "base64"
              THEN pr_image_decoded(r.body.v)
              ELSE pr_image_blob_miss(data)
    ELSE pr_image_blob_miss(data)

\* app.py:231-243: the run from the download response to the end
pr_image_after_download(r) ==
    IF r.fault THEN Raise(r.exc)
    ELSE IF r.status_code = 200 THEN Ret(PngResponse(r.content))
    ELSE pr_image_not_retrievable

\* app.py:245-247
pr_image_except_as_404(res) ==
    IF res.k = "raise"
    THEN Caught(res.raised[1],
                RawResponse(404, None, TextBody(Text("Could not retrieve image"))))
    ELSE res

pr_image_except(res) ==
    IF res.k = "raise"
    THEN Caught(res.raised[1], RawResponse(500, None, TextBody(res.raised[1])))
    ELSE res

\* What the upstream API may answer to the three calls of pr_image
ShaVals == {None, "", "f00"}
UrlVals == {None, "", "https://raw"}

ContentDicts ==
    { [encoding |-> e, sha |-> s, download_url |-> u] :
        e \in {None, "none"}, s \in ShaVals, u \in UrlVals }
    \cup { [encoding |-> "base64", content |-> c, sha |-> "f00",
            download_url |-> "https://raw"] : c \in B64Samples }
    \cup { [encoding |-> "base64", content |-> c] : c \in B64Samples }
    \cup { [encoding |-> "base64", sha |-> "f00", download_url |-> "https://raw"] }

BlobDicts ==
    { [encoding |-> "base64", content |-> c] : c \in B64Samples }
    \cup { [encoding |-> "base64"], [encoding |-> "utf-8", content |-> <<"Q">>],
           [sha |-> "f00"] }

Faults == { Fault(e) : e \in TransportFaults }

ContentOutcomes ==
    Faults \cup { Http(s, NoBody) : s \in StatusCodes \ {200} }
    \cup { Http(200, NotJson), Http(200, JsonList(<<>>)) }
    \cup { Http(200, JsonDict(d)) : d \in ContentDicts }

BlobOutcomes ==
    Faults \cup { Http(s, NoBody) : s \in StatusCodes \ {200} }
    \cup { Http(200, NotJson), Http(200, JsonList(<<>>)) }
    \cup { Http(200, JsonDict(d)) : d \in BlobDicts }

DownloadOutcomes ==
    Faults
    \cup { [fault |-> FALSE, status_code |-> s, content |-> b] :
            s \in StatusCodes, b \in RawSamples }

----------------------------------------------------------------------------
(* Tasks *)

Idle == [op |-> "none", pc |-> "idle", args |-> <<>>, calls |-> <<>>,
         local |-> <<>>, seen |-> <<>>, resp |-> NoResp, raised |-> <<>>,
         sets |-> <<>>]

\* A request arrives: the handler runs to its first await (or returns).
\* An exception no except clause of the handler catches leaves the handler.
Begin(t, op, args, res) ==
    /\ task[t].pc = "idle"
    /\ task' = [task EXCEPT ![t] =
           IF res.k = "return"
           THEN [Idle EXCEPT !.op = op, !.args = args, !.pc = "done",
                             !.resp = res.resp, !.raised = res.raised]
           ELSE IF res.k = "raise"
           THEN [Idle EXCEPT !.op = op, !.args = args, !.pc = "done",
                             !.resp = Unhandled(res.raised[1]),
                             !.raised = res.raised]
           ELSE [Idle EXCEPT !.op = op, !.args = args, !.pc = res.call,
                             !.calls = <<res.call>>, !.local = res.local]]

\* The awaited call of t yielded r; the handler ran on and ended as res.
\* seen keeps what the upstream calls of this request yielded, sets the
\* keys this request stored in the cache.
Resume(t, r, res) ==
    task' = [task EXCEPT ![t] =
        IF res.k = "return"
        THEN [@ EXCEPT !.pc = "done", !.resp = res.resp,
                       !.seen = Append(@, r), !.raised = res.raised,
                       !.sets = IF "stored" \in DOMAIN res
                                THEN Append(@, res.stored) ELSE @]
        ELSE IF res.k = "raise"
        THEN [@ EXCEPT !.pc = "done", !.resp = Unhandled(res.raised[1]),
                       !.seen = Append(@, r), !.raised = res.raised]
        ELSE [@ EXCEPT !.pc = res.call, !.calls = Append(@, res.call),
                       !.seen = Append(@, r), !.local = res.local]]

\* The framework sends the response; the task is free for the next request
Respond(t) ==
    /\ task[t].pc = "done"
    /\ task' = [task EXCEPT ![t] = Idle]
    /\ UNCHANGED <<probe, GITHUB_TOKEN, _cache, now, upstream, pushes, ticks>>

Paths == {"a.png", "b.png"}

\* app.py:172-185: the run from the request to the first await
pr_image_begin_unguarded == Await("content", <<>>)

pr_image_begin ==
    IF ~Truthy(GITHUB_TOKEN) THEN Ret(pr_image_no_token)
    ELSE Await("content", <<>>)

pr_image_start(t) ==
    \E path \in Paths, ref \in Shas, number \in Numbers :
        /\ Begin(t, "pr_image", [number |-> number, path |-> path, ref |-> ref],
                 pr_image_begin)
        /\ UNCHANGED <<probe, GITHUB_TOKEN, _cache, now, upstream, pushes, ticks>>

pr_image_content(t) ==
    /\ task[t].op = "pr_image" /\ task[t].pc = "content"
    /\ \E r \in ContentOutcomes :
           Resume(t, r, pr_image_except(pr_image_after_content(r)))
    /\ UNCHANGED <<probe, GITHUB_TOKEN, _cache, now, upstream, pushes, ticks>>

pr_image_blob(t) ==
    /\ task[t].op = "pr_image" /\ task[t].pc = "blob"
    /\ \E r \in BlobOutcomes :
           Resume(t, r, pr_image_except(pr_image_after_blob(r, task[t].local.data)))
    /\ UNCHANGED <<probe, GITHUB_TOKEN, _cache, now, upstream, pushes, ticks>>

pr_image_download(t) ==
    /\ task[t].op = "pr_image" /\ task[t].pc = "download"
    /\ \E r \in DownloadOutcomes :
           Resume(t, r, pr_image_except(pr_image_after_download(r)))
    /\ UNCHANGED <<probe, GITHUB_TOKEN, _cache, now, upstream, pushes, ticks>>

----------------------------------------------------------------------------
(* pr_images, app.py:81-161: the change-set resolver *)

github_repo == "owner/repo"

ascii_uppercase == << "A","B","C","D","E","F","G","H","I","J","K","L","M",
                      "N","O","P","Q","R","S","T","U","V","W","X","Y","Z" >>
ascii_lowercase == << "a","b","c","d","e","f","g","h","i","j","k","l","m",
                      "n","o","p","q","r","s","t","u","v","w","x","y","z" >>

\* str.lower()
lower(s) ==
    [i \in 1..Len(s) |->
        IF \E j \in 1..26 : ascii_uppercase[j] = s[i]
        THEN ascii_lowercase[CHOOSE j \in 1..26 : ascii_uppercase[j] = s[i]]
        ELSE s[i]]

\* str.endswith(suffix)
endswith(s, suffix) ==
    /\ Len(s) >= Len(suffix)
    /\ SubSeq(s, Len(s) - Len(suffix) + 1, Len(s)) = suffix

dot_png == <<".", "p", "n", "g">>

\* app.py:143
is_png_case_sensitive(filename) == endswith(filename, dot_png)

is_png(filename) == endswith(lower(filename), dot_png)

\* app.py:144-149
image_entry(f) ==
    [path |-> f["filename"],
     status |-> Get(f, "status", "modified"),
     additions |-> Get(f, "additions", 0),
     deletions |-> Get(f, "deletions", 0)]

\* app.py:141-149: the loop over the files, from entry i on.  An entry
\* that is no dict, or whose filename is no string, raises.
RECURSIVE collect_images(_, _, _)
collect_images(files, i, images) ==
    IF i > Len(files) THEN [ok |-> TRUE, images |-> images]
    ELSE LET f == files[i] IN
         IF f.k # "dict" THEN [ok |-> FALSE, exc |-> AttributeError]
         ELSE IF "filename" \notin DOMAIN f.v
              THEN collect_images(files, i + 1, images)
         ELSE IF is_png(f.v["filename"])
              THEN collect_images(files, i + 1, Append(images, image_entry(f.v)))
              ELSE collect_images(files, i + 1, images)

\* app.py:112
cache_key_without_head(repo, number, head_ref) == <<"pr_images", repo, number, "">>

cache_key(repo, number, head_ref) == <<"pr_images", repo, number, head_ref>>

\* app.py:86-90
no_token_images ==
    JsonResponse([error |-> Text("No GITHUB_TOKEN configured"), images |-> <<>>])

\* app.py:102-105, 133-136, 152-155
images_error(m) == JsonResponse([error |-> m, images |-> <<>>])

\* app.py:93
new_result(number) ==
    [pr_number |-> number, images |-> <<>>, base_ref |-> None, head_ref |-> None]

\* app.py:120-125: the keys the assignments add to result
with_pr_data_base_from_head(result, d) ==
    [key \in DOMAIN result \cup
             {"base_label", "head_label", "pr_title", "pr_url"} |->
        CASE key = "base_ref" -> d["head"]["sha"]
          [] key = "head_ref" -> d["head"]["sha"]
          [] key = "base_label" -> d["base"]["label"]
          [] key = "head_label" -> d["head"]["label"]
          [] key = "pr_title" -> d["title"]
          [] key = "pr_url" -> d["html_url"]
          [] OTHER -> result[key]]

with_pr_data(result, d) ==
    [key \in DOMAIN result \cup
             {"base_label", "head_label", "pr_title", "pr_url"} |->
        CASE key = "base_ref" -> d["base"]["sha"]
          [] key = "head_ref" -> d["head"]["sha"]
          [] key = "base_label" -> d["base"]["label"]
          [] key = "head_label" -> d["head"]["label"]
          [] key = "pr_title" -> d["title"]
          [] key = "pr_url" -> d["html_url"]
          [] OTHER -> result[key]]

\* The first key of keys that the dict d lacks, as a KeyError; <<>> if none
missing_key(d, keys) ==
    IF \E i \in 1..Len(keys) : keys[i] \notin DOMAIN d
    THEN <<KeyError(keys[CHOOSE i \in 1..Len(keys) :
                /\ keys[i] \notin DOMAIN d
                /\ \A j \in 1..(i - 1) : keys[j] \in DOMAIN d])>>
    ELSE <<>>

\* app.py:113-118: the cache lookup; on a hit the stored result is returned
pr_images_lookup_skipped(c, key, time) == Absent

pr_images_lookup_any_age(c, key, time) ==
    IF key \in DOMAIN c THEN <<c[key].val>> ELSE Absent

pr_images_lookup(c, key, time) == _cache_get(c, key, TTL, time)

\* app.py:97-131: the run from the PR metadata response to the next await
pr_images_after_pr(r, number, c, time) ==
    IF r.fault THEN Raise(r.exc)
    ELSE IF r.status_code # 200
    THEN Ret(images_error(Msg("PR not found: HTTP", r.status_code)))
    ELSE IF ~r.body.json THEN Raise(JSONDecodeError)
    ELSE IF r.body.k # "dict" THEN Raise(Text("list indices must be integers"))
    ELSE LET pr_data == r.body.v IN
         IF missing_key(pr_data, <<"base", "head">>) # <<>>
         THEN Raise(missing_key(pr_data, <<"base", "head">>)[1])
         ELSE LET key == cache_key(github_repo, number, pr_data["head"]["sha"])
                  cached == pr_images_lookup(c, key, time)
              IN  IF cached # Absent THEN Ret(JsonResponse(cached[1]))
                  ELSE IF missing_key(pr_data, <<"title", "html_url">>) # <<>>
                  THEN Raise(missing_key(pr_data, <<"title", "html_url">>)[1])
                  ELSE Await("compare",
                             [cache_key |-> key,
                              result |-> with_pr_data(new_result(number), pr_data)])

\* app.py:97-113: the cache after this run; a run that ends before line
\* 113 does not call _cache_get
pr_images_cache_after_pr(r, number, c, time) ==
    IF /\ ~r.fault /\ r.status_code = 200 /\ r.body.json /\ r.body.k = "dict"
       /\ missing_key(r.body.v, <<"base", "head">>) = <<>>
    THEN _cache_after_get(c, cache_key(github_repo, number, r.body.v["head"]["sha"]),
                          TTL, time)
    ELSE c

\* app.py:157: a run that leaves the try block stores the result
Store_under_current_head(key, result) ==
    [k |-> "store", cache_key |-> <<key[1], key[2], key[3], upstream[key[3]].head>>,
     result |-> result, raised |-> <<>>]

Store(key, result) == [k |-> "store", cache_key |-> key, result |-> result,
                       raised |-> <<>>]

\* app.py:128-149: the run from the compare response to the end of the try
pr_images_after_compare(r, local) ==
    IF r.fault THEN Raise(r.exc)
    ELSE IF r.status_code # 200
    THEN Ret(images_error(Msg("Compare failed: HTTP", r.status_code)))
    ELSE IF ~r.body.json THEN Raise(JSONDecodeError)
    ELSE IF r.body.k # "dict" THEN Raise(AttributeError)
    ELSE LET got == collect_images(Get(r.body.v, "files", <<>>), 1,
                                   local.result.images)
         IN  IF got.ok
             THEN Store(local.cache_key,
                        [local.result EXCEPT !["images"] = got.images])
             ELSE Raise(got.exc)

\* app.py:151-155
pr_images_except(res) ==
    IF res.k = "raise"
    THEN Caught(res.raised[1], images_error(res.raised[1]))
    ELSE res

\* app.py:157-161: the result is stored, then returned
pr_images_store_on_error(res, c, time) ==
    IF res.k = "store" THEN _cache_set(c, res.cache_key, res.result, time)
    ELSE IF res.k = "return" /\ "error" \in DOMAIN res.resp.content
    THEN _cache_set(c, <<"pr_images", github_repo, 0, "">>, res.resp.content, time)
    ELSE c

pr_images_store_clears_on_error(res, c, time) ==
    IF res.k = "store" THEN _cache_set(c, res.cache_key, res.result, time)
    ELSE [k \in {} |-> c[k]]

pr_images_store(res, c, time) ==
    IF res.k = "store" THEN _cache_set(c, res.cache_key, res.result, time) ELSE c

pr_images_return(res) ==
    IF res.k = "store"
    THEN [k |-> "return", resp |-> JsonResponse(res.result), raised |-> <<>>,
          stored |-> res.cache_key]
    ELSE res

\* The pull request as the metadata call returns it
pr_body(p) ==
    [base |-> [sha |-> p.base, label |-> "owner:main"],
     head |-> [sha |-> p.head, label |-> "owner:feature"],
     title |-> "Update screenshots",
     html_url |-> "https://github.com/owner/repo/pull/1"]

without(d, key) == [k \in DOMAIN d \ {key} |-> d[k]]

PrOutcomes(p) ==
    Faults \cup { Http(s, NoBody) : s \in StatusCodes \ {200} }
    \cup { Http(200, NotJson), Http(200, JsonList(<<>>)),
           Http(200, JsonDict(pr_body(p))),
           Http(200, JsonDict(without(pr_body(p), "head"))),
           Http(200, JsonDict(without(pr_body(p), "title"))) }

\* The answers kept where several requests interleave: a timeout, a 404
\* and the well-formed answer
PrOutcomesFew(p) ==
    { Fault(Text("ReadTimeout")), Http(404, NoBody), Http(200, JsonDict(pr_body(p))) }

\* File names of a compare response: x.png, y.py, z.PNG
FileNames ==
    { <<"x",".","p","n","g">>, <<"y",".","p","y">>, <<"z",".","P","N","G">> }

JDict(d) == [k |-> "dict", v |-> d]
JNull == [k |-> "null"]

CompareSamples ==
    { <<>>,
      << JDict([filename |-> <<"x",".","p","n","g">>, status |-> "added",
                additions |-> 0, deletions |-> 0]),
         JDict([filename |-> <<"y",".","p","y">>]) >>,
      << JDict([filename |-> <<"z",".","P","N","G">>]) >>,
      << JNull >> }

CompareOutcomes ==
    Faults \cup { Http(s, NoBody) : s \in StatusCodes \ {200} }
    \cup { Http(200, NotJson), Http(200, JsonList(<<>>)), Http(200, JsonDict(EmptyDict)) }
    \cup { Http(200, JsonDict([files |-> fl])) : fl \in CompareSamples }

CompareOutcomesFew ==
    { Fault(Text("ReadTimeout")), Http(404, NoBody) }
    \cup { Http(200, JsonDict([files |-> fl])) :
            fl \in { f \in CompareSamples : Len(f) > 0 /\ f[1].k = "dict" } }

\* Every file list of a compare response, up to MaxFiles entries: names
\* x.png, y.py, z.PNG, a.Png and png, an entry with the counts GitHub
\* sends, and one without a filename
FileSamples ==
    { JDict([filename |-> n]) :
        n \in FileNames \cup { <<"a",".","P","n","g">>, <<"p","n","g">> } }
    \cup { JDict([filename |-> <<"x",".","p","n","g">>, status |-> "added",
                  additions |-> 0, deletions |-> 0]),
           JDict([status |-> "removed"]) }

FileLists == UNION { [1..n -> FileSamples] : n \in 0..MaxFiles }

\* app.py:86-100: the run from the request to the first await
pr_images_begin ==
    IF ~Truthy(GITHUB_TOKEN) THEN Ret(no_token_images)
    ELSE Await("pr", <<>>)

pr_images_start(t) ==
    \E number \in Numbers :
        /\ Begin(t, "pr_images", [number |-> number], pr_images_begin)
        /\ UNCHANGED <<probe, GITHUB_TOKEN, _cache, now, upstream, pushes, ticks>>

\* The GitHub API answers a PR metadata call (GET .../pulls/{number}) with
\* the pull request as it is then; the answer is in flight until the
\* handler resumes
get_pull(t, few) ==
    /\ task[t].pc = "pr"
    /\ \E r \in IF few THEN PrOutcomesFew(upstream[task[t].args.number])
                       ELSE PrOutcomes(upstream[task[t].args.number]) :
           task' = [task EXCEPT ![t].pc = "pr_recv",
                                ![t].local = [k \in DOMAIN @ \cup {"inflight"} |->
                                                 IF k = "inflight" THEN r ELSE @[k]]]
    /\ UNCHANGED <<probe, GITHUB_TOKEN, _cache, now, upstream, pushes, ticks>>

pr_images_pr(t) ==
    /\ task[t].op = "pr_images" /\ task[t].pc = "pr_recv"
    /\ LET r == task[t].local.inflight IN
          /\ Resume(t, r, pr_images_except(
                              pr_images_after_pr(r, task[t].args.number, _cache, now)))
          /\ _cache' = pr_images_cache_after_pr(r, task[t].args.number, _cache, now)
    /\ UNCHANGED <<probe, GITHUB_TOKEN, now, upstream, pushes, ticks>>

pr_images_compare(t, outcomes) ==
    /\ task[t].op = "pr_images" /\ task[t].pc = "compare"
    /\ \E r \in outcomes :
         LET res == pr_images_except(pr_images_after_compare(r, task[t].local))
             c2 == pr_images_store(res, _cache, now)
         IN  /\ _cache' = c2
             /\ Resume(t, r, pr_images_return(res))
    /\ UNCHANGED <<probe, GITHUB_TOKEN, now, upstream, pushes, ticks>>

----------------------------------------------------------------------------
(* pr_comments, app.py:250-289, and pr_comment_counts, app.py:292-321 *)

\* app.py:277-284: the entry built from a matching comment; a comment that
\* lacks one of the subscripted keys raises KeyError
comment_keys == <<"id", "body", "user", "created_at">>

comment_entry(c) ==
    [id |-> c["id"], body |-> c["body"], user |-> c["user"]["login"],
     created_at |-> c["created_at"],
     updated_at |-> Get(c, "updated_at", None),
     html_url |-> Get(c, "html_url", "")]

\* app.py:275
path_matches_any(c, path) == "path" \in DOMAIN c

path_matches(c, path) == Get(c, "path", None) = path

\* app.py:274-284: the loop over all_comments, from entry i on
RECURSIVE filter_comments(_, _, _, _)
filter_comments(all_comments, path, i, file_comments) ==
    IF i > Len(all_comments) THEN [ok |-> TRUE, comments |-> file_comments]
    ELSE LET c == all_comments[i] IN
         IF c.k # "dict" THEN [ok |-> FALSE, exc |-> AttributeError]
         ELSE IF path_matches(c.v, path)
         THEN IF missing_key(c.v, comment_keys) # <<>>
              THEN [ok |-> FALSE, exc |-> missing_key(c.v, comment_keys)[1]]
              ELSE filter_comments(all_comments, path, i + 1,
                                   Append(file_comments, comment_entry(c.v)))
         ELSE filter_comments(all_comments, path, i + 1, file_comments)

\* app.py:258-259
no_token_comments ==
    JsonResponse([error |-> Text("No GITHUB_TOKEN configured"), comments |-> <<>>])

comments_error(m) == JsonResponse([error |-> m, comments |-> <<>>])

\* app.py:258-269
pr_comments_begin ==
    IF ~Truthy(GITHUB_TOKEN) THEN Ret(no_token_comments)
    ELSE Await("comments", <<>>)

\* app.py:270-286.  Iterating a JSON object yields its keys, which are
\* strings without a get method; only an empty object passes the loop.
pr_comments_after(r, path) ==
    IF r.fault THEN Raise(r.exc)
    ELSE IF r.status_code # 200 THEN Ret(comments_error(Msg("HTTP", r.status_code)))
    ELSE IF ~r.body.json THEN Raise(JSONDecodeError)
    ELSE IF r.body.k = "dict"
    THEN IF DOMAIN r.body.v = {} THEN Ret(JsonResponse([comments |-> <<>>]))
         ELSE Raise(AttributeError)
    ELSE LET got == filter_comments(r.body.v.items, path, 1, <<>>) IN
         IF got.ok THEN Ret(JsonResponse([comments |-> got.comments]))
         ELSE Raise(got.exc)

\* app.py:288-289
pr_comments_except_retry(res) ==
    IF res.k = "raise" THEN Await("comments", <<>>) ELSE res

pr_comments_except(res) ==
    IF res.k = "raise"
    THEN Caught(res.raised[1], comments_error(res.raised[1]))
    ELSE res

\* app.py:316: counts[p] = counts.get(p, 0) + 1
tally_once(counts, p) ==
    [q \in DOMAIN counts \cup {p} |-> IF q = p THEN 1 ELSE counts[q]]

tally(counts, p) ==
    [q \in DOMAIN counts \cup {p} |->
        IF q = p THEN Get(counts, p, 0) + 1 ELSE counts[q]]

\* app.py:312-316: the tally, from entry i on
RECURSIVE count_comments(_, _, _)
count_comments(all_comments, i, counts) ==
    IF i > Len(all_comments) THEN [ok |-> TRUE, counts |-> counts]
    ELSE LET c == all_comments[i] IN
         IF c.k # "dict" THEN [ok |-> FALSE, exc |-> AttributeError]
         ELSE LET p == Get(c.v, "path", "") IN
              IF Truthy(p)
              THEN count_comments(all_comments, i + 1, tally(counts, p))
              ELSE count_comments(all_comments, i + 1, counts)

\* app.py:298, 310, 321
no_counts == JsonResponse([counts |-> <<>>])

\* app.py:297-308
pr_comment_counts_begin ==
    IF ~Truthy(GITHUB_TOKEN) THEN Ret(no_counts)
    ELSE Await("comments", <<>>)

\* app.py:309-318
pr_comment_counts_after(r) ==
    IF r.fault THEN Raise(r.exc)
    ELSE IF r.status_code # 200 THEN Ret(no_counts)
    ELSE IF ~r.body.json THEN Raise(JSONDecodeError)
    ELSE IF r.body.k = "dict"
    THEN IF DOMAIN r.body.v = {} THEN Ret(no_counts) ELSE Raise(AttributeError)
    ELSE LET got == count_comments(r.body.v.items, 1, <<>>) IN
         IF got.ok THEN Ret(JsonResponse([counts |-> got.counts]))
         ELSE Raise(got.exc)

\* app.py:320-321
pr_comment_counts_except(res) ==
    IF res.k = "raise" THEN Caught(res.raised[1], no_counts) ELSE res

\* The comments the list call may return
a_comment(id, path) ==
    JDict([id |-> id, path |-> path, body |-> "looks off",
           user |-> [login |-> "octocat"], created_at |-> "2024-01-01T00:00:00Z"])

CommentSamples ==
    { a_comment(1, "a.png"), a_comment(2, "a.png"), a_comment(3, "b.png"),
      a_comment(4, ""), a_comment(5, None),
      JDict([path |-> "a.png", body |-> "no id"]), JNull }

CommentLists ==
    { <<>> } \cup { <<c>> : c \in CommentSamples }
    \cup { <<a_comment(1, "a.png"), c>> : c \in CommentSamples }
    \cup { <<a_comment(3, "b.png"), c>> : c \in CommentSamples }
    \cup { <<a_comment(1, "a.png"), a_comment(3, "b.png"), a_comment(2, "a.png")>>,
           <<a_comment(3, "b.png"), a_comment(4, ""), a_comment(3, "b.png")>> }

CommentsOutcomes ==
    Faults \cup { Http(s, NoBody) : s \in StatusCodes \ {200} }
    \cup { Http(200, NotJson), Http(200, JsonDict(EmptyDict)),
           Http(200, JsonDict([message |-> "Bad credentials"])) }
    \cup { Http(200, JsonList(l)) : l \in CommentLists }

pr_comments_start(t) ==
    \E number \in Numbers, path \in Paths :
        /\ Begin(t, "pr_comments", [number |-> number, path |-> path],
                 pr_comments_begin)
        /\ UNCHANGED <<probe, GITHUB_TOKEN, _cache, now, upstream, pushes, ticks>>

pr_comments_list(t) ==
    /\ task[t].op = "pr_comments" /\ task[t].pc = "comments"
    /\ \E r \in CommentsOutcomes :
           Resume(t, r, pr_comments_except(pr_comments_after(r, task[t].args.path)))
    /\ UNCHANGED <<probe, GITHUB_TOKEN, _cache, now, upstream, pushes, ticks>>

pr_comment_counts_start(t) ==
    \E number \in Numbers :
        /\ Begin(t, "pr_comment_counts", [number |-> number],
                 pr_comment_counts_begin)
        /\ UNCHANGED <<probe, GITHUB_TOKEN, _cache, now, upstream, pushes, ticks>>

pr_comment_counts_list(t) ==
    /\ task[t].op = "pr_comment_counts" /\ task[t].pc = "comments"
    /\ \E r \in CommentsOutcomes :
           Resume(t, r, pr_comment_counts_except(pr_comment_counts_after(r)))
    /\ UNCHANGED <<probe, GITHUB_TOKEN, _cache, now, upstream, pushes, ticks>>

----------------------------------------------------------------------------
(* post_pr_comment, app.py:324-385 *)

whitespace == {" ", "\t", "\n"}

\* str.strip()
RECURSIVE lstrip(_)
lstrip(s) ==
    IF s # <<>> /\ Head(s) \in whitespace THEN lstrip(Tail(s)) ELSE s

RECURSIVE rstrip(_)
rstrip(s) ==
    IF s # <<>> /\ s[Len(s)] \in whitespace
    THEN rstrip(SubSeq(s, 1, Len(s) - 1)) ELSE s

strip(s) == rstrip(lstrip(s))

\* A JSON value of the request body: a string, a number or null
JString(x) == [k |-> "str", v |-> x]
JNumber == [k |-> "int"]

\* payload.get(key, ""), app.py:337-338
payload_get(payload, key) == Get(payload, key, JString(<<>>))

post_error_as_400(m) ==
    [kind |-> "json", status_code |-> 400, content |-> [error |-> m]]

\* app.py:331, 335, 341, 352, 382, 385: a dict, sent as a 200 JSON response
post_error(m) == JsonResponse([error |-> m])

\* app.py:337-343: the fields are stripped outside any try block: a
\* payload that is no object has no get, a field that is no string has
\* no strip
post_fields(payload) ==
    IF payload.k # "dict" THEN Raise(AttributeError)
    ELSE IF payload_get(payload.v, "path").k # "str" THEN Raise(AttributeError)
    ELSE IF payload_get(payload.v, "body").k # "str" THEN Raise(AttributeError)
    ELSE LET file_path == strip(payload_get(payload.v, "path").v)
             comment_body == strip(payload_get(payload.v, "body").v)
         IN  IF file_path = <<>> \/ comment_body = <<>>
             THEN Ret(post_error(Text("Both 'path' and 'body' are required")))
             ELSE Await("pr", [file_path |-> file_path,
                               comment_body |-> comment_body])

\* app.py:329-350: the run from the request to the first await
post_pr_comment_begin(request) ==
    IF ~Truthy(GITHUB_TOKEN) THEN Ret(post_error(Text("No GITHUB_TOKEN configured")))
    ELSE IF ~request.json THEN Ret(post_error(Text("Invalid JSON body")))
    ELSE post_fields(request)

\* app.py:355
head_sha_from_base(pr_data) == pr_data["base"]["sha"]

head_sha(pr_data) == pr_data["head"]["sha"]

\* app.py:351-366: the run from the PR metadata response to the POST
post_pr_comment_after_pr(r, local) ==
    IF r.fault THEN Raise(r.exc)
    ELSE IF r.status_code # 200
    THEN Ret(post_error(Msg("PR not found: HTTP", r.status_code)))
    ELSE IF ~r.body.json THEN Raise(JSONDecodeError)
    ELSE IF r.body.k # "dict" THEN Raise(Text("list indices must be integers"))
    ELSE IF "head" \notin DOMAIN r.body.v THEN Raise(KeyError("head"))
    ELSE Await("post",
               [json |-> [body |-> local.comment_body,
                          commit_id |-> head_sha(r.body.v),
                          path |-> local.file_path,
                          subject_type |-> "file"]])

\* app.py:368-382
post_pr_comment_after_post(r) ==
    IF r.fault THEN Raise(r.exc)
    ELSE IF r.status_code \in {200, 201}
    THEN IF ~r.body.json THEN Raise(JSONDecodeError)
         ELSE IF r.body.k # "dict" THEN Raise(Text("list indices must be integers"))
         ELSE IF missing_key(r.body.v, comment_keys) # <<>>
         THEN Raise(missing_key(r.body.v, comment_keys)[1])
         ELSE Ret(JsonResponse(
                 [ok |-> TRUE,
                  comment |-> [id |-> r.body.v["id"], body |-> r.body.v["body"],
                               user |-> r.body.v["user"]["login"],
                               created_at |-> r.body.v["created_at"],
                               html_url |-> Get(r.body.v, "html_url", "")]]))
    ELSE Ret(post_error(Msg("GitHub API error: HTTP", r.status_code)))

\* app.py:384-385
post_pr_comment_except(res) ==
    IF res.k = "raise" THEN Caught(res.raised[1], post_error(res.raised[1])) ELSE res

\* Request bodies: strings are "a.png", "nice", " " and ""
PayloadStrings == { <<"a", ".", "p", "n", "g">>, <<" ", "o", "k", "\n">>, <<" ">>, <<>> }

Payloads ==
    { NotJson, JsonList(<<>>), JsonDict(EmptyDict),
      JsonDict([path |-> JNumber, body |-> JString(<<"o", "k">>)]),
      JsonDict([path |-> JString(<<"a">>), body |-> [k |-> "null"]]),
      JsonDict([path |-> JString(<<" ">>), body |-> [k |-> "null"]]),
      JsonDict([path |-> JNumber, body |-> JString(<<>>)]),
      JsonDict([path |-> JString(<<"a">>), body |-> JString(<<"o", "k">>),
                commit_id |-> JString(<<"a", "a", "a">>)]) }
    \cup { JsonDict([path |-> JString(x), body |-> JString(y)]) :
            x \in PayloadStrings, y \in PayloadStrings }
    \cup { JsonDict([body |-> JString(y)]) : y \in PayloadStrings }

created_comment(sent) ==
    [id |-> 7, body |-> sent.body, path |-> sent.path, commit_id |-> sent.commit_id,
     user |-> [login |-> "octocat"], created_at |-> "2024-01-02T00:00:00Z",
     html_url |-> "https://github.com/owner/repo/pull/1#r7"]

PostOutcomes(sent) ==
    Faults \cup { Http(s, NoBody) : s \in StatusCodes \ {200} }
    \cup { Http(s, b) : s \in {200, 201},
            b \in { NotJson, JsonDict(created_comment(sent)),
                    JsonDict(without(created_comment(sent), "id")) } }

post_pr_comment_start(t) ==
    \E number \in Numbers, request \in Payloads :
        /\ Begin(t, "post_pr_comment", [number |-> number, request |-> request],
                 post_pr_comment_begin(request))
        /\ UNCHANGED <<probe, GITHUB_TOKEN, _cache, now, upstream, pushes, ticks>>

post_pr_comment_pr(t) ==
    /\ task[t].op = "post_pr_comment" /\ task[t].pc = "pr_recv"
    /\ LET r == task[t].local.inflight IN
          Resume(t, r, post_pr_comment_except(
                           post_pr_comment_after_pr(r, task[t].local)))
    /\ UNCHANGED <<probe, GITHUB_TOKEN, _cache, now, upstream, pushes, ticks>>

\* The GitHub API serves the POST: with a success status it has created
\* the review comment on the commit the request names; upstream keeps the
\* latest one with the head the pull request had at that moment
created_on(p, sent) ==
    [p EXCEPT !.created = <<[commit_id |-> sent.commit_id, head |-> p.head]>>]

post_pr_comment_post(t) ==
    /\ task[t].op = "post_pr_comment" /\ task[t].pc = "post"
    /\ \E r \in PostOutcomes(task[t].local.json) :
          /\ Resume(t, r, post_pr_comment_except(post_pr_comment_after_post(r)))
          /\ upstream' =
                IF ~r.fault /\ r.status_code \in {200, 201}
                THEN [upstream EXCEPT ![task[t].args.number] =
                                          created_on(@, task[t].local.json)]
                ELSE upstream
    /\ UNCHANGED <<probe, GITHUB_TOKEN, _cache, now, pushes, ticks>>

\* No direct call of the cache yet
NoProbe == [op |-> "none"]

\* A force-push moves the head of a pull request to another commit
force_push ==
    /\ pushes < MaxPushes
    /\ \E number \in Numbers, h \in Shas \ {"aaa"} :
          /\ h # upstream[number].head
          /\ upstream' = [upstream EXCEPT ![number].head = h]
    /\ pushes' = pushes + 1
    /\ UNCHANGED <<probe, GITHUB_TOKEN, _cache, now, ticks, task>>

\* The base of a pull request moves to another commit (its base branch
\* got a push, or the pull request was retargeted); the head stays
base_change ==
    /\ pushes < MaxPushes
    /\ \E number \in Numbers, b \in Shas :
          /\ b \notin {upstream[number].base, upstream[number].head}
          /\ upstream' = [upstream EXCEPT ![number].base = b]
    /\ pushes' = pushes + 1
    /\ UNCHANGED <<probe, GITHUB_TOKEN, _cache, now, ticks, task>>

\* Time passes
TickStep == TTL \div 2

tick ==
    /\ ticks < MaxTicks
    /\ now' = now + TickStep
    /\ ticks' = ticks + 1
    /\ UNCHANGED <<probe, GITHUB_TOKEN, _cache, upstream, pushes, task>>

\* The cache called directly, app.py:38-47, with keys, values and ttls of
\* the caller's choice
CacheKeys == { cache_key(github_repo, number, h) : number \in Numbers, h \in {"bbb", "ccc"} }
CacheVals == {"v1", "v2"}
Ttls == {0, 1, TickStep, TTL}

cache_set(key, val) ==
    /\ _cache' = _cache_set(_cache, key, val, now)
    /\ probe' = [op |-> "set", key |-> key, val |-> val, at |-> now]
    /\ UNCHANGED <<GITHUB_TOKEN, now, upstream, pushes, ticks, task>>

cache_get(key, ttl) ==
    /\ probe' = [op |-> "get", key |-> key, ttl |-> ttl, at |-> now,
                 result |-> _cache_get(_cache, key, ttl, now)]
    /\ _cache' = _cache_after_get(_cache, key, ttl, now)
    /\ UNCHANGED <<GITHUB_TOKEN, now, upstream, pushes, ticks, task>>

----------------------------------------------------------------------------
Init ==
    /\ GITHUB_TOKEN \in {"", "ghp_token"}
    /\ _cache = <<>>
    /\ now = 0
    /\ upstream \in [Numbers -> [base : {"aaa"}, head : {"bbb"}, created : {<<>>}]]
    /\ pushes = 0
    /\ ticks = 0
    /\ task = [t \in Tasks |-> Idle]
    /\ probe = NoProbe

Next ==
    \/ pr_image_start(MainTask)
    \/ pr_image_content(MainTask)
    \/ pr_image_blob(MainTask)
    \/ pr_image_download(MainTask)
    \/ pr_comments_start(MainTask)
    \/ pr_comments_list(MainTask)
    \/ pr_comment_counts_start(MainTask)
    \/ pr_comment_counts_list(MainTask)
    \/ post_pr_comment_start(MainTask)
    \/ post_pr_comment_pr(MainTask)
    \/ post_pr_comment_post(MainTask)
    \/ pr_images_start(MainTask)
    \/ get_pull(MainTask, FALSE)
    \/ pr_images_pr(MainTask)
    \/ pr_images_compare(MainTask, CompareOutcomes)
    \/ Respond(MainTask)

Spec == Init /\ [][Next]_vars

\* Every upstream call returns or times out, and the handler that awaits
\* it is resumed
Resumed ==
    \/ pr_image_content(MainTask)
    \/ pr_image_blob(MainTask)
    \/ pr_image_download(MainTask)
    \/ pr_comments_list(MainTask)
    \/ pr_comment_counts_list(MainTask)
    \/ post_pr_comment_pr(MainTask)
    \/ post_pr_comment_post(MainTask)
    \/ get_pull(MainTask, FALSE)
    \/ pr_images_pr(MainTask)
    \/ pr_images_compare(MainTask, CompareOutcomes)

SpecLive == Init /\ [][Next]_vars /\ WF_vars(Resumed)

\* Concurrent resolves of one pull request, force-pushes and the clock
NextResolve ==
    \/ \E t \in Tasks :
          \/ pr_images_start(t)
          \/ get_pull(t, t # MainTask)
          \/ pr_images_pr(t)
          \/ pr_images_compare(t, IF t = MainTask THEN CompareOutcomes
                                                   ELSE CompareOutcomesFew)
          \/ Respond(t)
    \/ force_push
    \/ tick

SpecResolve == Init /\ [][NextResolve]_vars

\* Comment creation while the pull request is force-pushed
NextPost ==
    \/ post_pr_comment_start(MainTask)
    \/ get_pull(MainTask, FALSE)
    \/ post_pr_comment_pr(MainTask)
    \/ post_pr_comment_post(MainTask)
    \/ Respond(MainTask)
    \/ force_push

SpecPost == Init /\ [][NextPost]_vars

\* Resolves while the base of the pull request moves and the clock runs
NextBase ==
    \/ \E t \in Tasks :
          \/ pr_images_start(t)
          \/ get_pull(t, TRUE)
          \/ pr_images_pr(t)
          \/ pr_images_compare(t, CompareOutcomesFew)
          \/ Respond(t)
    \/ base_change
    \/ tick

SpecBase == Init /\ [][NextBase]_vars

\* Requests of every operation on one task while another task resolves
OtherTask == CHOOSE t \in Tasks : t # MainTask

NextIsolation ==
    \/ Next
    \/ pr_images_start(OtherTask)
    \/ get_pull(OtherTask, TRUE)
    \/ pr_images_pr(OtherTask)
    \/ pr_images_compare(OtherTask, CompareOutcomesFew)
    \/ Respond(OtherTask)

SpecIsolation == Init /\ [][NextIsolation]_vars

\* The cache on its own: sets, gets and the clock
NextCache ==
    \/ \E key \in CacheKeys, val \in CacheVals : cache_set(key, val)
    \/ \E key \in CacheKeys, ttl \in Ttls : cache_get(key, ttl)
    \/ tick

SpecCache == Init /\ [][NextCache]_vars

\* One resolve after another, over every file list the compare may return
NextFiles ==
    \/ pr_images_start(MainTask)
    \/ get_pull(MainTask, TRUE)
    \/ pr_images_pr(MainTask)
    \/ pr_images_compare(MainTask,
            { Http(200, JsonDict([files |-> fl])) : fl \in FileLists })
    \/ Respond(MainTask)

SpecFiles == Init /\ [][NextFiles]_vars

----------------------------------------------------------------------------
(* Properties *)

Done(t, op) == task[t].op = op /\ task[t].pc = "done"

Range(s) == { s[i] : i \in DOMAIN s }

\* A pr_images response without an error field
Resolved(resp) == resp.kind = "json" /\ "error" \notin DOMAIN resp.content

\* The response of a pr_images request is a result: no error field
Succeeded(t) == Done(t, "pr_images") /\ Resolved(task[t].resp)

\* The i-th upstream call of t returned a response with this status
Returned(t, i, status) ==
    /\ i <= Len(task[t].seen)
    /\ ~task[t].seen[i].fault
    /\ task[t].seen[i].status_code = status

\* The i-th upstream call of t returned 200 with a JSON object
ReturnedDict(t, i) ==
    /\ Returned(t, i, 200)
    /\ task[t].seen[i].body.json
    /\ task[t].seen[i].body.k = "dict"

\* ... whose encoding is base64
ReturnedBase64(t, i) ==
    /\ ReturnedDict(t, i)
    /\ "encoding" \in DOMAIN task[t].seen[i].body.v
    /\ task[t].seen[i].body.v["encoding"] = "base64"

\* C1: every successful pr_images response carries as head_ref the head
\* commit id that this request's own PR metadata call returned, whatever
\* force-pushes, cache expiries and other requests interleave.
C1_HeadOfOwnFetch ==
    \A t \in Tasks :
        Succeeded(t) =>
            /\ ReturnedDict(t, 1)
            /\ task[t].resp.content["head_ref"] = task[t].seen[1].body.v["head"]["sha"]

\* A result is served while the cache holds a fresh entry of another head
C1_Witness ==
    \E t \in Tasks :
        /\ Succeeded(t)
        /\ pushes > 0
        /\ \E key \in DOMAIN _cache :
              /\ key[4] # task[t].resp.content["head_ref"]
              /\ now - _cache[key].ts < TTL

\* C2: once a tier produced bytes no later tier is called: inline base64
\* content means neither blob nor download call; a blob answering 200 with
\* base64 content is decoded and returned without the download call; bytes
\* of a download answering 200 are returned unmodified.
C2_TiersSkipped ==
    \A t \in Tasks :
        Done(t, "pr_image") =>
            /\ ReturnedBase64(t, 1) => task[t].calls = <<"content">>
            /\ ( /\ ReturnedDict(t, 1) /\ ~ReturnedBase64(t, 1)
                 /\ Len(task[t].calls) >= 2 /\ task[t].calls[2] = "blob"
                 /\ ReturnedBase64(t, 2)
                 /\ "content" \in DOMAIN task[t].seen[2].body.v
                 /\ b64decode(task[t].seen[2].body.v["content"]).ok )
               => /\ task[t].calls = <<"content", "blob">>
                  /\ task[t].resp.status_code = 200
                  /\ task[t].resp.media_type = "image/png"
                  /\ task[t].resp.body.t = "bytes"
                  /\ task[t].resp.body.v =
                        b64decode(task[t].seen[2].body.v["content"]).bytes
                  /\ task[t].seen[2].body.v["content"] = <<"Q","Q","=","=">>
                        => task[t].resp.body.v = <<65>>
                  /\ task[t].seen[2].body.v["content"] = <<"Q","U","\n","J","D">>
                        => task[t].resp.body.v = <<65, 66, 67>>
            /\ ( /\ task[t].calls # <<>>
                 /\ task[t].calls[Len(task[t].calls)] = "download"
                 /\ Returned(t, Len(task[t].calls), 200) )
               => /\ task[t].resp.status_code = 200
                  /\ task[t].resp.body.t = "bytes"
                  /\ task[t].resp.body.v = task[t].seen[Len(task[t].seen)].content

\* The blob tier produced the bytes "ABC" of a file without inline content
C2_Witness ==
    \E t \in Tasks :
        /\ Done(t, "pr_image")
        /\ task[t].calls = <<"content", "blob">>
        /\ ReturnedDict(t, 1)
        /\ Truthy(Get(task[t].seen[1].body.v, "download_url", None))
        /\ task[t].resp.status_code = 200
        /\ task[t].resp.body.v = <<65, 66, 67>>

\* The content response of a pr_image request carried this key, non-empty
Carried(t, key) ==
    /\ ReturnedDict(t, 1)
    /\ Truthy(Get(task[t].seen[1].body.v, key, None))

AllTiersAttempted(t) ==
    /\ Carried(t, "sha") => \E i \in 1..Len(task[t].calls) : task[t].calls[i] = "blob"
    /\ Carried(t, "download_url") =>
           \E i \in 1..Len(task[t].calls) : task[t].calls[i] = "download"

\* C3 as stated: whenever pr_image fails after the content call returned
\* 200, the blob call was issued if the response carried a sha and the
\* download call if it carried a download_url, also when the failure comes
\* from an exception.
C3_AllTiersBeforeAnyFailure ==
    \A t \in Tasks :
        ( /\ Done(t, "pr_image") /\ Returned(t, 1, 200)
          /\ task[t].resp.status_code # 200 )
        => AllTiersAttempted(t)

\* C3 as amended: whenever pr_image fails after the content call returned
\* 200 and no exception was raised (the 404 outcome), the blob call was
\* issued if the response carried a non-empty sha and the download call if
\* it carried a non-empty download_url.
C3_AllTiersBeforeNotFound ==
    \A t \in Tasks :
        ( /\ Done(t, "pr_image") /\ Returned(t, 1, 200)
          /\ task[t].resp.status_code # 200
          /\ task[t].raised = <<>> )
        => AllTiersAttempted(t)

\* A 404 after the blob and the download were both tried
C3_Witness ==
    \E t \in Tasks :
        /\ Done(t, "pr_image")
        /\ task[t].calls = <<"content", "blob", "download">>
        /\ task[t].resp.status_code = 404
        /\ task[t].raised = <<>>

\* C4: every public operation is total: whatever the request and the
\* upstream do, the handler returns a response and no exception leaves it.
C4_Total ==
    \A t \in Tasks :
        task[t].pc = "done" => task[t].resp.kind \in {"json", "raw"}

\* The step of t completes a resolve that missed the cache and succeeded
CompletesMiss(t) ==
    /\ task[t].op = "pr_images" /\ task[t].pc = "compare"
    /\ task'[t].pc = "done" /\ Resolved(task'[t].resp)

\* C5 as stated: a resolve that succeeds has written exactly one cache
\* entry, one that fails has written none.
C5_OneWritePerSuccess ==
    \A t \in Tasks :
        Done(t, "pr_images") =>
            Len(task[t].sets) = IF Resolved(task[t].resp) THEN 1 ELSE 0

\* C5 as amended: a resolve that succeeds after a cache miss has written
\* exactly one cache entry (its result, under its own key, at the current
\* time); one that succeeds from a cache hit or fails has written none,
\* and no step of such a resolve changes the cache.
C5_OneWritePerMiss ==
    /\ [](\A t \in Tasks :
            Done(t, "pr_images") =>
                Len(task[t].sets) =
                    IF Resolved(task[t].resp) /\ task[t].calls = <<"pr", "compare">>
                    THEN 1 ELSE 0)
    /\ [][\A t \in Tasks :
            task'[t] # task[t] =>
                IF CompletesMiss(t)
                THEN \E key \in DOMAIN _cache' :
                        /\ task'[t].sets = <<key>>
                        /\ DOMAIN _cache' = DOMAIN _cache \cup {key}
                        /\ _cache'[key] = [ts |-> now, val |-> task'[t].resp.content]
                        /\ \A k \in DOMAIN _cache \ {key} : _cache'[k] = _cache[k]
                ELSE _cache' = _cache]_vars

\* A resolve fails at the compare call while the cache holds an entry
C5_Witness ==
    \E t \in Tasks :
        /\ Done(t, "pr_images")
        /\ task[t].calls = <<"pr", "compare">>
        /\ ~Resolved(task[t].resp)
        /\ DOMAIN _cache # {}

\* The metadata answer in flight to t names a head whose cache entry is
\* younger than 120 seconds
FreshEntry(t) ==
    LET r == task[t].local.inflight IN
    /\ ~r.fault /\ r.status_code = 200 /\ r.body.json /\ r.body.k = "dict"
    /\ {"base", "head"} \subseteq DOMAIN r.body.v
    /\ LET key == <<"pr_images", "owner/repo", task[t].args.number,
                    r.body.v["head"]["sha"]>>
       IN  key \in DOMAIN _cache /\ now - _cache[key].ts < 120

\* C6: a resolve that finds a cache entry for (repo, number, head_ref)
\* younger than 120 seconds returns the stored result; the metadata call is
\* its only upstream call, compare is not called.
C6_HitReturnsStored ==
    [][\A t \in Tasks :
        ( /\ task[t].op = "pr_images" /\ task[t].pc = "pr_recv"
          /\ task'[t] # task[t]
          /\ FreshEntry(t) )
        => /\ task'[t].pc = "done"
           /\ task'[t].calls = <<"pr">>
           /\ task'[t].resp.kind = "json"
           /\ task'[t].resp.content =
                 _cache[<<"pr_images", "owner/repo", task[t].args.number,
                          task[t].local.inflight.body.v["head"]["sha"]>>].val
           /\ _cache' = _cache]_vars

\* A result is served from an entry that is 60 seconds old
C6_Witness ==
    \E t \in Tasks :
        /\ Succeeded(t)
        /\ task[t].calls = <<"pr">>
        /\ \E key \in DOMAIN _cache :
              /\ _cache[key].val = task[t].resp.content
              /\ now - _cache[key].ts = 60

\* The response an operation gives when no token is configured
SoftError(t) ==
    CASE task[t].op = "pr_images" ->
            /\ task[t].resp.kind = "json"
            /\ "error" \in DOMAIN task[t].resp.content
            /\ task[t].resp.content["images"] = <<>>
      [] task[t].op = "pr_image" ->
            /\ task[t].resp.kind = "raw"
            /\ task[t].resp.status_code = 500
            /\ task[t].resp.body.t = "text"
      [] task[t].op = "pr_comments" ->
            /\ task[t].resp.kind = "json"
            /\ "error" \in DOMAIN task[t].resp.content
            /\ task[t].resp.content["comments"] = <<>>
      [] task[t].op = "pr_comment_counts" ->
            /\ task[t].resp.kind = "json"
            /\ DOMAIN task[t].resp.content = {"counts"}
            /\ DOMAIN task[t].resp.content["counts"] = {}
      [] task[t].op = "post_pr_comment" ->
            /\ task[t].resp.kind = "json"
            /\ DOMAIN task[t].resp.content = {"error"}
      [] OTHER -> FALSE

\* C7: without a token every operation returns a soft error or an empty
\* result, issues no upstream call and leaves the cache as it was.
C7_NoTokenNoCalls ==
    ~Truthy(GITHUB_TOKEN) =>
        /\ _cache = <<>>
        /\ \A t \in Tasks :
              /\ task[t].pc \in {"idle", "done"}
              /\ task[t].calls = <<>>
              /\ task[t].sets = <<>>
              /\ task[t].pc = "done" => SoftError(t)

\* Without a token a comment is posted with a body that is a JSON list
C7_Witness ==
    \E t \in Tasks :
        /\ ~Truthy(GITHUB_TOKEN)
        /\ Done(t, "post_pr_comment")
        /\ task[t].args.request = JsonList(<<>>)

\* C8: when the content call returns a status other than 200 the
\* operation fails at once with that status; neither the blob nor the
\* download call is issued.
C8_ContentErrorIsFinal ==
    \A t \in Tasks :
        ( /\ Done(t, "pr_image") /\ task[t].seen # <<>>
          /\ ~task[t].seen[1].fault /\ task[t].seen[1].status_code # 200 )
        => /\ task[t].resp.kind = "raw"
           /\ task[t].resp.status_code = task[t].seen[1].status_code
           /\ task[t].calls = <<"content">>

\* The content call returned 403
C8_Witness ==
    \E t \in Tasks :
        /\ Done(t, "pr_image")
        /\ Returned(t, 1, 403)

\* No upstream call of t produced bytes: the content response has no
\* inline base64, the blob response (if any) is not 200 or has no base64,
\* the download response (if any) is not 200
NoTierProducedBytes(t) ==
    /\ ReturnedDict(t, 1) /\ ~ReturnedBase64(t, 1)
    /\ \A i \in 2..Len(task[t].seen) :
          /\ ~task[t].seen[i].fault
          /\ task[t].calls[i] = "blob" =>
                \/ task[t].seen[i].status_code # 200
                \/ ReturnedDict(t, i) /\ ~ReturnedBase64(t, i)
          /\ task[t].calls[i] = "download" => task[t].seen[i].status_code # 200

\* C9: when the content call succeeds and no tier produces bytes, pr_image
\* returns 404 as a normal result; no exception is raised.
C9_NotFoundWhenNoBytes ==
    \A t \in Tasks :
        (Done(t, "pr_image") /\ NoTierProducedBytes(t))
        => /\ task[t].resp.kind = "raw"
           /\ task[t].resp.status_code = 404
           /\ task[t].raised = <<>>

\* Neither a sha nor a download_url: 404 after the content call alone
C9_Witness ==
    \E t \in Tasks :
        /\ Done(t, "pr_image")
        /\ task[t].calls = <<"content">>
        /\ NoTierProducedBytes(t)
        /\ ~Carried(t, "sha") /\ ~Carried(t, "download_url")

\* C10: an exception raised anywhere in pr_image (by the content, blob or
\* download call, or while decoding) is caught and becomes a 500 response
\* whose body is the text of the exception.
C10_ExceptionBecomes500 ==
    \A t \in Tasks :
        Done(t, "pr_image") =>
            /\ ( task[t].seen # <<>> /\ task[t].seen[Len(task[t].seen)].fault )
               => /\ task[t].resp.kind = "raw"
                  /\ task[t].resp.status_code = 500
                  /\ task[t].resp.body.t = "text"
                  /\ task[t].resp.body.v = task[t].seen[Len(task[t].seen)].exc
            /\ task[t].raised # <<>>
               => /\ task[t].resp.kind = "raw"
                  /\ task[t].resp.status_code = 500
                  /\ task[t].resp.body.t = "text"
                  /\ task[t].resp.body.v = task[t].raised[1]

\* The blob call timed out
C10_Witness ==
    \E t \in Tasks :
        /\ Done(t, "pr_image")
        /\ task[t].calls = <<"content", "blob">>
        /\ task[t].seen[2].fault
        /\ task[t].seen[2].exc = Text("ReadTimeout")

----------------------------------------------------------------------------
\* The review comment of pull request n that upstream created last
Created(n) == upstream[n].created

\* t is a post_pr_comment request whose POST upstream served with success
Posted(t) ==
    /\ task[t].op = "post_pr_comment" /\ task[t].pc = "done"
    /\ task[t].calls = <<"pr", "post">>
    /\ ~task[t].seen[2].fault /\ task[t].seen[2].status_code \in {200, 201}

\* C11, as stated: the commit a created review comment is anchored to is
\* the head the pull request has at the moment the comment is created,
\* whatever force-pushes happen between the metadata fetch and the POST.
C11_AnchoredToCurrentHead ==
    \A n \in Numbers : \A i \in DOMAIN Created(n) :
        Created(n)[i].commit_id = Created(n)[i].head

\* C11, amended: the commit_id of the create call is the head commit id
\* that this request's own metadata fetch returned, and nothing the caller
\* sent; the comment upstream creates is anchored to that commit.
C11_AnchoredToFetchedHead ==
    \A t \in Tasks :
        /\ task[t].op = "post_pr_comment" /\ "post" \in Range(task[t].calls)
            => /\ task[t].calls[1] = "pr" /\ ReturnedDict(t, 1)
               /\ task[t].local.json.commit_id = task[t].seen[1].body.v["head"]["sha"]
               /\ DOMAIN task[t].local.json = {"body", "commit_id", "path", "subject_type"}
        /\ Posted(t)
            => /\ Created(task[t].args.number) # <<>>
               /\ Created(task[t].args.number)[1].commit_id
                    = task[t].seen[1].body.v["head"]["sha"]

\* A comment was created after a force-push overtook the metadata fetch:
\* it is anchored to the head that was fetched, no longer the current one
C11_Witness ==
    \E t \in Tasks :
        /\ Posted(t)
        /\ Created(task[t].args.number) # <<>>
        /\ Created(task[t].args.number)[1].commit_id
             = task[t].seen[1].body.v["head"]["sha"]
        /\ Created(task[t].args.number)[1].commit_id
             # Created(task[t].args.number)[1].head

----------------------------------------------------------------------------
\* The field of a request body is empty after trimming: it is missing (the
\* default is "") or a string of nothing but whitespace
EmptyAfterTrim(payload, key) ==
    /\ payload_get(payload, key).k = "str"
    /\ strip(payload_get(payload, key).v) = <<>>

ValidationError(resp) ==
    /\ resp.kind = "json"
    /\ resp.content = [error |-> Text("Both 'path' and 'body' are required")]

\* C12: with the credential configured, a post_pr_comment request whose
\* body is a JSON object with a path or a body that is empty after trimming
\* returns the validation error and issues no upstream call, neither the
\* metadata GET nor the comment POST.
C12_EmptyFieldRejected ==
    \A t \in Tasks :
        /\ task[t].op = "post_pr_comment"
        /\ Truthy(GITHUB_TOKEN)
        /\ task[t].args.request.json /\ task[t].args.request.k = "dict"
        /\ \/ EmptyAfterTrim(task[t].args.request.v, "path")
           \/ EmptyAfterTrim(task[t].args.request.v, "body")
        => /\ task[t].pc = "done"
           /\ task[t].calls = <<>>
           /\ ValidationError(task[t].resp)

----------------------------------------------------------------------------
\* This step is a _cache_get
IsGet == probe'.op = "get" /\ probe' # probe

\* C13: _cache_get(key, ttl) returns the stored value if and only if an
\* entry exists for key and now - entry.timestamp < ttl, with the ttl of
\* that call; so a get right after _cache_set(k, v) returns v for any
\* ttl > 0, and a get once at least ttl has elapsed returns absent.
C13_FreshIffWithinTtl ==
    [][IsGet =>
        LET k == probe'.key
            ttl == probe'.ttl
        IN  /\ probe'.result # Absent
                <=> (k \in DOMAIN _cache /\ now - _cache[k].ts < ttl)
            /\ probe'.result # Absent => probe'.result = <<_cache[k].val>>
            /\ probe.op = "set" /\ probe.key = k
                => /\ probe.at = now /\ ttl > 0 => probe'.result = <<probe.val>>
                   /\ now - probe.at >= ttl => probe'.result = Absent
    ]_vars

\* A get found the entry absent under its ttl while the same entry is
\* fresh under the ttl of another caller
C13_Witness ==
    /\ probe.op = "get" /\ probe.at = now
    /\ probe.key \in DOMAIN _cache
    /\ probe.result = Absent
    /\ probe.ttl > 0
    /\ \E ttl \in Ttls : now - _cache[probe.key].ts < ttl

----------------------------------------------------------------------------
\* The last four characters are ".png" in any mix of cases
EndsInPng(name) ==
    /\ Len(name) >= 4
    /\ name[Len(name) - 3] = "."
    /\ name[Len(name) - 2] \in {"p", "P"}
    /\ name[Len(name) - 1] \in {"n", "N"}
    /\ name[Len(name)] \in {"g", "G"}

\* The entries of a file list whose filename ends in ".png", in order
PngFiles(files) ==
    SelectSeq(files, LAMBDA f : "filename" \in DOMAIN f.v /\ EndsInPng(f.v["filename"]))

\* t is a pr_images request whose compare call returned a file list
Compared(t) ==
    /\ Done(t, "pr_images")
    /\ task[t].calls = <<"pr", "compare">>
    /\ ReturnedDict(t, 2)
    /\ "files" \in DOMAIN task[t].seen[2].body.v

\* C14: on a cache miss with a successful compare the result is a success
\* (also with no image at all) and its images are exactly the files of the
\* compare response whose filename ends in ".png" case-insensitively, in
\* upstream order, each with the path, status and line counts of its file.
C14_ImagesArePngFilesInOrder ==
    \A t \in Tasks :
        Compared(t) =>
            LET png == PngFiles(task[t].seen[2].body.v["files"])
                images == task[t].resp.content.images
            IN  /\ Resolved(task[t].resp)
                /\ Len(images) = Len(png)
                /\ \A i \in 1..Len(png) :
                      /\ images[i].path = png[i].v["filename"]
                      /\ images[i].status = Get(png[i].v, "status", "modified")
                      /\ images[i].additions = Get(png[i].v, "additions", 0)
                      /\ images[i].deletions = Get(png[i].v, "deletions", 0)

\* The compare returned y.py and z.PNG: the result holds z.PNG alone
C14_Witness ==
    \E t \in Tasks :
        /\ Compared(t)
        /\ Len(task[t].seen[2].body.v["files"]) = 2
        /\ task[t].seen[2].body.v["files"][1].v = [filename |-> <<"y",".","p","y">>]
        /\ Len(task[t].resp.content.images) = 1
        /\ task[t].resp.content.images[1].path = <<"z",".","P","N","G">>

----------------------------------------------------------------------------
\* The JSON operations that call the compare, PR metadata or comment API
JsonOperations == {"pr_images", "pr_comments", "pr_comment_counts", "post_pr_comment"}

\* The last upstream call of t returned a status that is no success
FailedUpstream(t) ==
    /\ task[t].pc = "done" /\ task[t].seen # <<>>
    /\ ~task[t].seen[Len(task[t].seen)].fault
    /\ task[t].seen[Len(task[t].seen)].status_code \notin {200, 201}

\* The response is an error result whose message carries this status
SurfacesStatus(resp, status) ==
    /\ resp.kind = "json"
    /\ "error" \in DOMAIN resp.content
    /\ resp.content.error.code = status

\* C15: whenever an upstream call of a JSON operation returns a status
\* that is no success, the operation returns an error result whose message
\* includes that status code.
C15_StatusSurfaces ==
    \A t \in Tasks :
        task[t].op \in JsonOperations /\ FailedUpstream(t)
        => SurfacesStatus(task[t].resp, task[t].seen[Len(task[t].seen)].status_code)

----------------------------------------------------------------------------
\* t is a post_pr_comment request that fails validation: the credential is
\* configured, the body is a JSON object whose path and body are strings
\* (or missing), and one of them is empty after trimming
ValidationFailed(t) ==
    /\ Done(t, "post_pr_comment")
    /\ Truthy(GITHUB_TOKEN)
    /\ task[t].args.request.json /\ task[t].args.request.k = "dict"
    /\ payload_get(task[t].args.request.v, "path").k = "str"
    /\ payload_get(task[t].args.request.v, "body").k = "str"
    /\ \/ EmptyAfterTrim(task[t].args.request.v, "path")
       \/ EmptyAfterTrim(task[t].args.request.v, "body")

\* C16, as stated: a validation failure of post_pr_comment is answered
\* with a structured error response of the 400 class.
C16_ValidationIs400Class ==
    \A t \in Tasks :
        ValidationFailed(t)
        => /\ task[t].resp.kind = "json"
           /\ "error" \in DOMAIN task[t].resp.content
           /\ task[t].resp.status_code \in 400..499

\* C16, amended: a validation failure of post_pr_comment is answered with
\* a structured error payload, {error: "Both 'path' and 'body' are
\* required"}, in a response of status 200.
C16_ValidationIs200WithError ==
    \A t \in Tasks :
        /\ ValidationFailed(t)
            => /\ ValidationError(task[t].resp)
               /\ task[t].resp.status_code = 200
        /\ Done(t, "post_pr_comment") /\ task[t].resp.kind = "json"
            /\ "error" \in DOMAIN task[t].resp.content
            => task[t].resp.status_code = 200

\* A request with a whitespace-only path was rejected
C16_Witness ==
    \E t \in Tasks :
        /\ ValidationFailed(t)
        /\ payload_get(task[t].args.request.v, "path") = JString(<<" ">>)
        /\ payload_get(task[t].args.request.v, "body") = JString(<<" ", "o", "k", "\n">>)
        /\ ValidationError(task[t].resp)

----------------------------------------------------------------------------
\* t is a request of this operation whose comment list call returned a list
Listed(t, op) ==
    /\ Done(t, op)
    /\ task[t].calls = <<"comments">>
    /\ Returned(t, 1, 200)
    /\ task[t].seen[1].body.json /\ task[t].seen[1].body.k = "list"

\* The comments of the list t fetched
Fetched(t) == task[t].seen[1].body.v.items

\* A review comment as the GitHub API sends it: an object with the keys
\* the handler subscripts
WellFormed(c) == c.k = "dict" /\ \A i \in DOMAIN comment_keys : comment_keys[i] \in DOMAIN c.v

\* The comments of a list whose path is this one, in order
OnPath(comments, path) ==
    SelectSeq(comments, LAMBDA c : c.k = "dict" /\ "path" \in DOMAIN c.v
                                              /\ c.v["path"] = path)

\* C17: pr_comments returns exactly the comments of the fetched list whose
\* path equals the requested path, in their original order, and no
\* others; a list of well-formed comments is always answered so.
C17_ExactlyTheCommentsOnPath ==
    \A t \in Tasks :
        Listed(t, "pr_comments") =>
            LET on_path == OnPath(Fetched(t), task[t].args.path)
                comments == task[t].resp.content.comments
            IN  /\ (\A i \in DOMAIN Fetched(t) : WellFormed(Fetched(t)[i]))
                    => Resolved(task[t].resp)
                /\ Resolved(task[t].resp)
                    => /\ Len(comments) = Len(on_path)
                       /\ \A i \in 1..Len(on_path) :
                             /\ comments[i].id = on_path[i].v["id"]
                             /\ comments[i].body = on_path[i].v["body"]
                             /\ comments[i].user = on_path[i].v["user"]["login"]
                             /\ comments[i].created_at = on_path[i].v["created_at"]
                /\ ~Resolved(task[t].resp) => comments = <<>>

\* Of the comments 1 (a.png), 3 (b.png), 2 (a.png), the request for a.png
\* got 1 and 2
C17_Witness ==
    \E t \in Tasks :
        /\ Listed(t, "pr_comments")
        /\ task[t].args.path = "a.png"
        /\ Len(Fetched(t)) = 3
        /\ Resolved(task[t].resp)
        /\ Len(task[t].resp.content.comments) = 2
        /\ task[t].resp.content.comments[1].id = 1
        /\ task[t].resp.content.comments[2].id = 2

----------------------------------------------------------------------------
\* The positions of a comment list that hold a comment on this path
Positions(comments, path) ==
    { i \in DOMAIN comments :
        comments[i].k = "dict" /\ "path" \in DOMAIN comments[i].v
                               /\ comments[i].v["path"] = path }

\* The non-empty paths of a comment list
PathsOf(comments) ==
    { comments[i].v["path"] :
        i \in { j \in DOMAIN comments :
                  comments[j].k = "dict" /\ "path" \in DOMAIN comments[j].v } }
    \ {"", None}

\* What pr_comments answers for this path when its list call yields r
pr_comments_for(r, path) == pr_comments_except(pr_comments_after(r, path)).resp

----------------------------------------------------------------------------
\* The fields of a complete result, app.py:92, 107-109, 120-125
ResultFields ==
    {"pr_number", "images", "base_ref", "head_ref",
     "base_label", "head_label", "pr_title", "pr_url"}

\* C19: in every reachable state of concurrent resolves and force-pushes,
\* each cache entry under the key of (repo, number, h) holds a complete
\* result whose pr_number is number and whose head_ref is h; and a request
\* writes only under the key of the head its own metadata call returned,
\* never under the head a later force-push made current.
C19_EntryBelongsToItsKey ==
    /\ \A key \in DOMAIN _cache :
          LET val == _cache[key].val IN
          /\ key = cache_key(github_repo, val["pr_number"], val["head_ref"])
          /\ key[3] \in Numbers /\ key[4] \in Shas
          /\ DOMAIN val = ResultFields
          /\ val["base_ref"] \in Shas
          /\ \A i \in DOMAIN val["images"] : EndsInPng(val["images"][i].path)
    /\ \A t \in Tasks :
          task[t].sets # <<>>
          => /\ Len(task[t].sets) = 1
             /\ ReturnedDict(t, 1)
             /\ task[t].sets[1] = cache_key(github_repo, task[t].args.number,
                                            task[t].seen[1].body.v["head"]["sha"])

\* A request stored its result after a force-push had moved the head:
\* the entry is under the head the request fetched, and the key of the
\* new head stays without an entry
C19_Witness ==
    \E t \in Tasks :
        /\ Done(t, "pr_images") /\ task[t].sets # <<>>
        /\ task[t].sets[1][4] # upstream[task[t].args.number].head
        /\ task[t].sets[1] \in DOMAIN _cache
        /\ cache_key(github_repo, task[t].args.number,
                     upstream[task[t].args.number].head) \notin DOMAIN _cache

----------------------------------------------------------------------------
\* t has issued its compare call and waits for the answer
AwaitsCompare(t) == task[t].op = "pr_images" /\ task[t].pc = "compare"

\* C20, as stated: of the pr_images requests for one key that run at the
\* same time from a state without a fresh entry, at most one issues the
\* compare call.
C20_Coalesced ==
    \A t1, t2 \in Tasks :
        t1 # t2 /\ AwaitsCompare(t1) /\ AwaitsCompare(t2)
        => task[t1].local.cache_key # task[t2].local.cache_key

\* The metadata answer in flight to t has all the handler reads from it
MetadataComplete(t) ==
    LET r == task[t].local.inflight IN
    /\ ~r.fault /\ r.status_code = 200 /\ r.body.json /\ r.body.k = "dict"
    /\ {"base", "head", "title", "html_url"} \subseteq DOMAIN r.body.v

\* C20, amended: requests are coalesced through the cache only.  A request
\* issues the compare call, once, exactly when at its lookup the cache
\* holds no entry for its key younger than 120 seconds, whether or not
\* another request for the same key is waiting for its own compare.
C20_CompareOnEveryMiss ==
    [][\A t \in Tasks :
          task[t].op = "pr_images" /\ task[t].pc = "pr_recv" /\ task'[t] # task[t]
          => /\ task'[t].pc = "compare"
                 => MetadataComplete(t) /\ ~FreshEntry(t)
             /\ MetadataComplete(t) /\ ~FreshEntry(t)
                 => /\ task'[t].pc = "compare"
                    /\ task'[t].calls = <<"pr", "compare">>
    ]_vars

\* Two requests for one key both called compare and both stored a result
C20_Witness ==
    \E t1, t2 \in Tasks :
        /\ t1 # t2
        /\ Succeeded(t1) /\ Succeeded(t2)
        /\ task[t1].calls = <<"pr", "compare">>
        /\ task[t2].calls = <<"pr", "compare">>
        /\ task[t1].sets # <<>> /\ task[t1].sets = task[t2].sets
        /\ ticks = 0

----------------------------------------------------------------------------
\* The base commit id the PR metadata call of t returned
FetchedBase(t) == task[t].seen[1].body.v["base"]["sha"]

\* C21, as stated: every successful pr_images result has as base_ref the
\* base commit id this request's own PR metadata call returned, also when
\* it is served from the cache after the base changed under the same head.
C21_BaseOfOwnFetch ==
    \A t \in Tasks :
        Succeeded(t) => task[t].resp.content["base_ref"] = FetchedBase(t)

\* This step of t runs the handler on from its PR metadata answer
AfterMetadata(t) ==
    task[t].op = "pr_images" /\ task[t].pc = "pr_recv" /\ task'[t] # task[t]

\* C21, amended: a result computed on a cache miss has, and stores, the
\* base_ref of the request's own metadata call; a result served from the
\* cache has the base_ref of the entry stored under the fetched head, the
\* base of the request that computed it, whatever base was just fetched.
C21_BaseOfComputingFetch ==
    [][\A t \in Tasks :
          /\ CompletesMiss(t)
              => /\ task'[t].resp.content["base_ref"] = FetchedBase(t)
                 /\ _cache'[task[t].local.cache_key].val["base_ref"] = FetchedBase(t)
          /\ AfterMetadata(t) /\ task'[t].pc = "done" /\ Resolved(task'[t].resp)
              => LET key == cache_key(github_repo, task[t].args.number,
                                      task[t].local.inflight.body.v["head"]["sha"])
                 IN  /\ key \in DOMAIN _cache
                     /\ task'[t].resp.content["base_ref"] = _cache[key].val["base_ref"]
    ]_vars

\* The base moved under the same head while an entry was fresh: the hit
\* returned the base_ref of the stored result, not the one just fetched
C21_Witness ==
    \E t \in Tasks :
        /\ Succeeded(t)
        /\ task[t].calls = <<"pr">>
        /\ task[t].resp.content["head_ref"] = task[t].seen[1].body.v["head"]["sha"]
        /\ task[t].resp.content["base_ref"] # FetchedBase(t)

----------------------------------------------------------------------------
\* The key under which t looks up the cache on its metadata answer
LookupKey(t) ==
    cache_key(github_repo, task[t].args.number,
              task[t].local.inflight.body.v["head"]["sha"])

\* C22: a cache hit of pr_images leaves the entry as it is, timestamp
\* included; an entry's timestamp is the time of the latest _cache_set of
\* its key; a result is served from the cache only while the entry is
\* younger than 120 seconds, and once it is not, the next resolve for the
\* key calls compare again.
C22_NoSlidingExpiry ==
    [][/\ \A t \in Tasks :
            AfterMetadata(t) =>
                /\ task'[t].pc = "done" /\ Resolved(task'[t].resp)
                    => /\ _cache' = _cache
                       /\ LookupKey(t) \in DOMAIN _cache
                       /\ now - _cache[LookupKey(t)].ts < 120
                       /\ Len(task'[t].calls) = 1
                /\ ( /\ MetadataComplete(t)
                     /\ LookupKey(t) \in DOMAIN _cache
                     /\ now - _cache[LookupKey(t)].ts >= 120 )
                    => task'[t].pc = "compare"
       /\ \A key \in DOMAIN _cache :
            /\ key \in DOMAIN _cache'
            /\ _cache'[key] # _cache[key]
                => /\ \E t \in Tasks : CompletesMiss(t) /\ task[t].local.cache_key = key
                   /\ _cache'[key].ts = now
    ]_vars

\* An entry was hit by one request and, 120 seconds after it was stored,
\* another request for the same key waits for compare
C22_Witness ==
    \E t1, t2 \in Tasks :
        /\ t1 # t2
        /\ Succeeded(t2) /\ task[t2].calls = <<"pr">>
        /\ AwaitsCompare(t1)
        /\ task[t1].local.cache_key \in DOMAIN _cache
        /\ task[t1].local.cache_key[4] = task[t2].resp.content["head_ref"]
        /\ now - _cache[task[t1].local.cache_key].ts >= 120

----------------------------------------------------------------------------
\* This step is a _cache_set
IsSet == probe'.op = "set" /\ probe' # probe

\* C23: _cache_get never modifies the cache mapping: an expired entry is
\* reported absent and stays stored with its timestamp and value; and
\* _cache_set(k, v) makes the entry of k the current time and v and
\* leaves the entry of every other key as it was.
C23_GetReadsSetWritesOneKey ==
    [][/\ IsGet
           => /\ _cache' = _cache
              /\ probe'.key \in DOMAIN _cache /\ probe'.result = Absent
                  => /\ probe'.key \in DOMAIN _cache'
                     /\ _cache'[probe'.key].ts = _cache[probe'.key].ts
                     /\ _cache'[probe'.key].val = _cache[probe'.key].val
       /\ IsSet
           => /\ DOMAIN _cache' = DOMAIN _cache \cup {probe'.key}
              /\ _cache'[probe'.key] = [ts |-> now, val |-> probe'.val]
              /\ \A key \in DOMAIN _cache \ {probe'.key} : _cache'[key] = _cache[key]
    ]_vars

\* A get under the ttl of pr_images found an entry expired: it is still
\* stored, next to the entry of the other key
C23_Witness ==
    /\ probe.op = "get" /\ probe.at = now /\ probe.ttl = TTL
    /\ probe.result = Absent
    /\ probe.key \in DOMAIN _cache
    /\ now - _cache[probe.key].ts >= TTL
    /\ \E key \in DOMAIN _cache : key # probe.key

----------------------------------------------------------------------------
\* The operations that are not the change-set resolver
OtherOperations == {"pr_image", "pr_comments", "pr_comment_counts", "post_pr_comment"}

\* This step is a step of the request t
StepOf(t) == task'[t] # task[t]

\* This step ends the request t in a failure: an exception was raised, an
\* upstream call answered with a status that is no success, or the
\* response is an error
FailsIn(t) ==
    /\ StepOf(t) /\ task'[t].pc = "done"
    /\ \/ task'[t].raised # <<>>
       \/ /\ task'[t].seen # <<>>
          /\ ~task'[t].seen[Len(task'[t].seen)].fault
          /\ task'[t].seen[Len(task'[t].seen)].status_code \notin {200, 201}
       \/ task'[t].resp.kind = "unhandled"
       \/ task'[t].resp.kind = "raw" /\ task'[t].resp.status_code >= 400
       \/ task'[t].resp.kind = "json" /\ "error" \in DOMAIN task'[t].resp.content

\* This step leaves the cache and every request but t as they are
Isolated(t) ==
    /\ _cache' = _cache
    /\ \A u \in Tasks \ {t} : task'[u] = task[u]

\* C24: a step that ends a request in a failure, and every step of a
\* pr_image, pr_comments, pr_comment_counts or post_pr_comment request
\* whatever its outcome, leaves the cache and all other requests in
\* flight unchanged.
C24_RequestsIsolated ==
    [][\A t \in Tasks :
          /\ FailsIn(t) => Isolated(t)
          /\ StepOf(t) /\ (task[t].op \in OtherOperations
                            \/ task'[t].op \in OtherOperations)
              => Isolated(t)
    ]_vars

\* A pr_image request ended in a timeout while a resolve waits for its
\* compare call and the cache holds an entry
C24_Witness ==
    /\ Done(MainTask, "pr_image")
    /\ task[MainTask].raised = <<Text("ReadTimeout")>>
    /\ AwaitsCompare(OtherTask)
    /\ DOMAIN _cache # {}

----------------------------------------------------------------------------
\* t is between the arrival of its request and its response
InFlight(t) == task[t].pc \notin {"idle", "done"}

\* The sequences of upstream calls an operation may issue
CallOrders(op) ==
    CASE op = "pr_image" ->
             { <<>>, <<"content">>, <<"content", "blob">>, <<"content", "download">>,
               <<"content", "blob", "download">> }
      [] op = "pr_images" -> { <<>>, <<"pr">>, <<"pr", "compare">> }
      [] op = "post_pr_comment" -> { <<>>, <<"pr">>, <<"pr", "post">> }
      [] op \in {"pr_comments", "pr_comment_counts"} -> { <<>>, <<"comments">> }
      [] OTHER -> { <<>> }

\* The calls of t so far are in the order of its operation, each issued
\* once and after the one before it had completed
CallsInOrder(t) ==
    /\ task[t].calls \in CallOrders(task[t].op)
    /\ Len(task[t].seen) = IF InFlight(t) THEN Len(task[t].calls) - 1
                                          ELSE Len(task[t].calls)
    /\ task[t].op = "post_pr_comment" /\ Len(task[t].calls) = 2
        => Returned(t, 1, 200)

\* C25: the upstream calls of every request are a bounded sequence in the
\* order of its operation (pr_image: content, blob, download, at most
\* three; pr_images: metadata, compare; post_pr_comment: metadata GET,
\* then POST only after a 200; pr_comments and pr_comment_counts: one),
\* no call is repeated, each is issued after the previous one completed;
\* and, every upstream call returning or timing out, every request in
\* flight ends with a response.
C25_BoundedCallsThenResponse ==
    /\ [](\A t \in Tasks : CallsInOrder(t))
    /\ \A t \in Tasks : InFlight(t) ~> task[t].pc = "done"

\* A pr_image request ended after all three calls, each answered
C25_Witness ==
    \E t \in Tasks :
        /\ Done(t, "pr_image")
        /\ task[t].calls = <<"content", "blob", "download">>
        /\ Len(task[t].seen) = 3
        /\ task[t].resp # NoResp

============================================================================
